---- MODULE Spec2Model ----
(***************************************************************************)
(* Model of scripts/generate-miner-icons.py: parse_miners (regex scrape    *)
(* of the miner database, sorted by tier), draw_icon (fixed sequence of    *)
(* pixel fills on a 16x16 canvas, nearest-neighbour upscale) and main      *)
(* (parse, mkdir, one icon file per record, manifest).                     *)
(***************************************************************************)
EXTENDS Integers, Sequences, FiniteSets, TLC

VARIABLES
    text,       \* content of DATABASE_PATH, as a sequence of lexical tokens
    matches,    \* match objects produced by pattern.finditer, in encounter order
    miners,     \* the list returned by parse_miners
    pc,         \* position of main: "parse", "mkdir", "icons", "done", "failed"
    failed,     \* the step whose exception aborted main, "none" otherwise
    k,          \* 1-based index of the next record of the for loop of main
    files,      \* image files of OUTPUT_DIR: path |-> content
    manifest,   \* content of OUTPUT_DIR/manifest.json, <<>> while not written
    stdout,     \* lines printed by main
    rarity,     \* argument of a direct call of draw_icon
    seed,       \* argument of a direct call of draw_icon
    img,        \* the 16x16 canvas of draw_icon when it returns, <<>> before
    icon        \* the image returned by draw_icon, <<>> before the call

vars == <<text, matches, miners, pc, failed, k, files, manifest, stdout,
          rarity, seed, img, icon>>

mainVars == <<text, matches, miners, pc, failed, k, files, manifest, stdout>>
iconVars == <<rarity, seed, img, icon>>

-----------------------------------------------------------------------------
(* Constants of the script *)

SCALE == 8
GRID == 16
OUTPUT_DIR == "assets/ui/miners"

KnownRarities == {"Common", "Rare", "Epic", "Legendary", "Mythic", "Exotic"}

RARITY_COLORS ==
    [r \in KnownRarities |->
        CASE r = "Common"    -> <<"#b0b0b0", "#7a7a7a">>
          [] r = "Rare"      -> <<"#4aa3df", "#2e86de">>
          [] r = "Epic"      -> <<"#b084f5", "#8e44ad">>
          [] r = "Legendary" -> <<"#f7d36a", "#f1c40f">>
          [] r = "Mythic"    -> <<"#f39c5a", "#e67e22">>
          [] r = "Exotic"    -> <<"#f26d6d", "#e74c3c">>]

-----------------------------------------------------------------------------
(* Bounds *)

MaxSeed == 6

\* Rarity strings that are not keys of RARITY_COLORS (lookup is case-sensitive)
UnknownRarities == {"Nonexistent", "common"}

Rarities == KnownRarities \cup UnknownRarities
Seeds == 0..MaxSeed

-----------------------------------------------------------------------------
(* draw_icon *)

GridPixels == (0..(GRID - 1)) \X (0..(GRID - 1))

\* Image.new("RGBA", (GRID, GRID), (0, 0, 0, 0))
Transparent == "#00000000"
NewImage == [p \in GridPixels |-> Transparent]

\* draw_pixel: draw.rectangle([x, y, x, y], fill=color)
draw_pixel(im, x, y, color) == [im EXCEPT ![<<x, y>>] = color]

\* for y in ys: for x in xs: draw_pixel(draw, x, y, color)
FillRect(im, xs, ys, color) ==
    [p \in GridPixels |-> IF p[1] \in xs /\ p[2] \in ys THEN color ELSE im[p]]

\* A lookup with another default entry
PaletteMutCommonIsRare(r) ==
    IF r \in DOMAIN RARITY_COLORS THEN RARITY_COLORS[r] ELSE RARITY_COLORS["Rare"]

\* RARITY_COLORS.get(rarity, RARITY_COLORS["Common"])

Palette(r) ==
    IF r \in DOMAIN RARITY_COLORS THEN RARITY_COLORS[r] ELSE RARITY_COLORS["Common"]

PaintFrame(im) ==
    LET frame == "#1c1f24"
        a == FillRect(im, 0..(GRID - 1), {0, GRID - 1}, frame)
    IN  FillRect(a, {0, GRID - 1}, 0..(GRID - 1), frame)

PaintHelmet(im, base) == FillRect(im, 3..12, 2..6, base)

PaintBrim(im, accent) == FillRect(im, 4..11, {7}, accent)

SkinMutSwapped(s) == IF s % 2 = 0 THEN "#e3b58a" ELSE "#f2c9a0"

Skin(s) == IF s % 2 = 0 THEN "#f2c9a0" ELSE "#e3b58a"

PaintFace(im, s) == FillRect(im, 4..11, 8..11, Skin(s))

PaintEyes(im) ==
    LET eye == "#2b2b2b"
    IN  draw_pixel(draw_pixel(im, 6, 9, eye), 9, 9, eye)

PaintMouth(im) == draw_pixel(draw_pixel(im, 7, 11, "#7a4b3a"), 8, 11, "#7a4b3a")

PaintHandle(im) ==
    LET handle == "#8b5a2b"
    IN  [p \in GridPixels |->
            IF \E i \in 0..4 : p = <<10 + i, 10 + i>> THEN handle ELSE im[p]]

PaintPickHead(im, accent) == FillRect(im, 12..14, {9, 10}, accent)

HasStripeMutMod2(s) == s % 2 = 0

HasStripe(s) == s % 3 = 0

PaintStripe(im, s, accent) ==
    IF HasStripe(s) THEN FillRect(im, 5..10, {4}, accent) ELSE im

\* The canvas of draw_icon when it reaches the return statement
DrawGrid(r, s) ==
    LET base   == Palette(r)[1]
        accent == Palette(r)[2]
        i1 == PaintFrame(NewImage)
        i2 == PaintHelmet(i1, base)
        i3 == PaintBrim(i2, accent)
        i4 == PaintFace(i3, s)
        i5 == PaintEyes(i4)
        i6 == PaintMouth(i5)
        i7 == PaintHandle(i6)
        i8 == PaintPickHead(i7, accent)
    IN  PaintStripe(i8, s, accent)

\* img.resize((GRID * SCALE, GRID * SCALE), Image.Resampling.NEAREST)
OutPixels == (0..(GRID * SCALE - 1)) \X (0..(GRID * SCALE - 1))

ResizeNearest(im) ==
    [p \in OutPixels |-> im[<<p[1] \div SCALE, p[2] \div SCALE>>]]

draw_icon(r, s) == ResizeNearest(DrawGrid(r, s))

-----------------------------------------------------------------------------
(* The miner database as parse_miners' pattern sees it.  A token is a      *)
(* maximal piece of text matched by one of the two sub-patterns, or other  *)
(* text:                                                                   *)
(*   pair   : tier:\s*(\d+),\s*name:\s*'([^']+)'   (digits, name)          *)
(*   rarity : rarity:\s*'([^']+)'                  (value)                 *)
(*   other  : text that is part of neither                                 *)

PairTok(d, n) == [kind |-> "pair", digits |-> d, str |-> n]
RarityTok(v)  == [kind |-> "rarity", digits |-> <<>>, str |-> v]
OtherTok      == [kind |-> "other", digits |-> <<>>, str |-> ""]

MaxLen == 6

\* Sample pairs: tier 3, tier 3 written with a leading zero (\d+ matches it),
\* and the two-digit tier 10
Pairs == {PairTok(<<3>>, "A"), PairTok(<<0, 3>>, "B"), PairTok(<<1, 0>>, "C")}
TextRarities == {"Common", "Mythic"}

Tokens == Pairs \cup {RarityTok(v) : v \in TextRarities} \cup {OtherTok}

SeqsUpTo(S, n) == UNION {[1..m -> S] : m \in 0..n}

Texts == SeqsUpTo(Tokens, MaxLen)

-----------------------------------------------------------------------------
(* parse_miners *)

\* int(match.group(1)) for a string of decimal digits
RECURSIVE int(_)
int(d) == IF d = <<>> THEN 0
          ELSE 10 * int(SubSeq(d, 1, Len(d) - 1)) + d[Len(d)]

\* Positions after pos at which rarity:\s*'([^']+)' matches
RarityAfter(t, pos) == {j \in (pos + 1)..Len(t) : t[j].kind = "rarity"}

Min(S) == CHOOSE x \in S : \A y \in S : x <= y
Max(S) == CHOOSE x \in S : \A y \in S : x >= y

\* A greedy [\s\S]* would end the match at the last rarity
CloseMutLast(t, pos) == Max(RarityAfter(t, pos))

\* [\s\S]*? is lazy: the match ends at the nearest following rarity

Close(t, pos) == Min(RarityAfter(t, pos))

\* A scan for overlapping matches would resume right after the start
ResumeMutOverlap(start, end) == start + 1

\* The scan position after a match starting at start and ending at end

Resume(start, end) == end + 1

\* A pattern whose rarity part were optional would match a lone pair
RECURSIVE finditerMutOptionalRarity(_, _)
finditerMutOptionalRarity(t, pos) ==
    IF pos > Len(t) THEN <<>>
    ELSE IF t[pos].kind = "pair"
         THEN LET end == IF RarityAfter(t, pos) # {} THEN Close(t, pos) ELSE pos
              IN  <<[start |-> pos, end |-> end,
                     group1 |-> t[pos].digits,
                     group2 |-> t[pos].str,
                     group3 |-> IF end = pos THEN "" ELSE t[end].str]>>
                  \o finditerMutOptionalRarity(t, end + 1)
         ELSE finditerMutOptionalRarity(t, pos + 1)

\* pattern.finditer(content): non-overlapping matches, left to right, from pos
RECURSIVE finditer(_, _)
finditer(t, pos) ==
    IF pos > Len(t) THEN <<>>
    ELSE IF t[pos].kind = "pair" /\ RarityAfter(t, pos) # {}
         THEN LET end == Close(t, pos)
              IN  <<[start |-> pos, end |-> end,
                     group1 |-> t[pos].digits,
                     group2 |-> t[pos].str,
                     group3 |-> t[end].str]>>
                  \o finditer(t, Resume(pos, end))
         ELSE finditer(t, pos + 1)

\* {"tier": int(match.group(1)), "name": match.group(2), "rarity": match.group(3)}
Record(m) == [tier |-> int(m.group1), name |-> m.group2, rarity |-> m.group3]

Appended(ms) == [i \in 1..Len(ms) |-> Record(ms[i])]

\* A sort that placed an element before the elements of equal key
BeforeMutUnstable(a, b) == a.tier < b.tier

\* sorted(miners, key=lambda m: m["tier"]) is a stable sort: an element is
\* placed after every element whose key is not greater

Before(a, b) == a.tier <= b.tier

RECURSIVE Insert(_, _)
Insert(s, m) ==
    IF s = <<>> THEN <<m>>
    ELSE IF Before(s[Len(s)], m) THEN Append(s, m)
         ELSE Append(Insert(SubSeq(s, 1, Len(s) - 1), m), s[Len(s)])

RECURSIVE sorted(_)
sorted(s) == IF s = <<>> THEN <<>>
             ELSE Insert(sorted(SubSeq(s, 1, Len(s) - 1)), s[Len(s)])

parse_miners(t) == sorted(Appended(finditer(t, 1)))

-----------------------------------------------------------------------------
(* main *)

\* OUTPUT_DIR / f"tier-{tier}.png"
OutputPath(tier) == OUTPUT_DIR \o "/tier-" \o ToString(tier) \o ".png"

\* icon.save(output) stores a lossless encoding of the image (PNG).  The
\* encoding is modelled as run lengths: each row as runs of equal pixels,
\* the image as runs of equal rows.
Runs(s) ==
    LET starts  == {i \in 1..Len(s) : i = 1 \/ s[i] # s[i - 1]}
        nth(n)  == CHOOSE i \in starts : Cardinality({j \in starts : j <= i}) = n
        stop(i) == IF \E j \in starts : j > i
                   THEN CHOOSE j \in starts :
                            j > i /\ \A h \in starts : h > i => j <= h
                   ELSE Len(s) + 1
    IN  [n \in 1..Cardinality(starts) |-> <<s[nth(n)], stop(nth(n)) - nth(n)>>]

ImageRow(im, y) == [x \in 1..(GRID * SCALE) |-> im[<<x - 1, y>>]]

PngEncode(im) == Runs([y \in 1..(GRID * SCALE) |-> Runs(ImageRow(im, y - 1))])

\* Number of pixels or rows a sequence of runs stands for
RECURSIVE RunTotal(_)
RunTotal(rs) == IF rs = <<>> THEN 0 ELSE rs[1][2] + RunTotal(Tail(rs))

\* Evaluation cache of the encoded icons of the records a text can hold
IconCache ==
    [r \in TextRarities, s \in {int(p.digits) : p \in Pairs} |->
        PngEncode(draw_icon(r, s))]

SavedIcon(r, s) ==
    IF <<r, s>> \in DOMAIN IconCache THEN IconCache[r, s]
    ELSE PngEncode(draw_icon(r, s))

\* Content of a file whose write was interrupted by an exception
Truncated == <<>>

\* A write that skipped files that exist already
WriteFileMutKeepExisting(fs, path, content) ==
    IF path \in DOMAIN fs THEN fs
    ELSE [n \in (DOMAIN fs) \cup {path} |-> IF n = path THEN content ELSE fs[n]]

WriteFile(fs, path, content) ==
    [n \in (DOMAIN fs) \cup {path} |-> IF n = path THEN content ELSE fs[n]]

NoManifest == [state |-> "absent", size |-> 0, count |-> 0, path |-> ""]

Init ==
    /\ text \in Texts
    /\ matches = <<>>
    /\ miners = <<>>
    /\ pc = "parse"
    /\ failed = "none"
    /\ k = 1
    /\ files = <<>>
    /\ manifest = NoManifest
    /\ stdout = <<>>
    /\ rarity = "Common"
    /\ seed = 0
    /\ img = <<>>
    /\ icon = <<>>

\* miners = parse_miners(DATABASE_PATH)
ParseOk ==
    /\ pc = "parse"
    /\ matches' = finditer(text, 1)
    /\ miners' = parse_miners(text)
    /\ pc' = "mkdir"
    /\ UNCHANGED <<text, failed, k, files, manifest, stdout, iconVars>>

\* path.read_text raises (file missing, unreadable, not UTF-8)
ReadFail ==
    /\ pc = "parse"
    /\ pc' = "failed"
    /\ failed' = "read"
    /\ UNCHANGED <<text, matches, miners, k, files, manifest, stdout, iconVars>>

\* OUTPUT_DIR.mkdir(parents=True, exist_ok=True)
MkdirOk ==
    /\ pc = "mkdir"
    /\ pc' = "icons"
    /\ UNCHANGED <<text, matches, miners, failed, k, files, manifest, stdout,
                   iconVars>>

MkdirFail ==
    /\ pc = "mkdir"
    /\ pc' = "failed"
    /\ failed' = "mkdir"
    /\ UNCHANGED <<text, matches, miners, k, files, manifest, stdout, iconVars>>

\* One iteration of the for loop: draw, save, print
SaveOk ==
    /\ pc = "icons"
    /\ k <= Len(miners)
    /\ LET tier   == miners[k].tier
           output == OutputPath(tier)
       IN  /\ files' = WriteFile(files, output, SavedIcon(miners[k].rarity, tier))
           /\ stdout' = Append(stdout, "wrote " \o output)
    /\ k' = k + 1
    /\ UNCHANGED <<text, matches, miners, pc, failed, manifest, iconVars>>

\* A loop that caught the exception of icon.save and went on
AfterSaveFailMutContinue(fs) ==
    /\ files' = fs
    /\ k' = k + 1
    /\ failed' = "save"
    /\ UNCHANGED pc

\* icon.save raises: the exception leaves main; the file is untouched (open
\* failed, or the new file was removed) or left truncated
AfterSaveFail(fs) ==
    /\ files' = fs
    /\ pc' = "failed"
    /\ failed' = "save"
    /\ UNCHANGED k

SaveFail ==
    /\ pc = "icons"
    /\ k <= Len(miners)
    /\ \E fs \in {files, WriteFile(files, OutputPath(miners[k].tier), Truncated)} :
           AfterSaveFail(fs)
    /\ UNCHANGED <<text, matches, miners, manifest, stdout, iconVars>>

\* A manifest that counted the image files instead of the records
ManifestMutCountFiles(ms) ==
    [state |-> "written", size |-> GRID * SCALE,
     count |-> Cardinality({ms[i].tier : i \in 1..Len(ms)}),
     path |-> "assets/ui/miners"]

\* The manifest dict of main, as json.dumps writes it after the loop
Manifest(ms) ==
    [state |-> "written", size |-> GRID * SCALE, count |-> Len(ms),
     path |-> "assets/ui/miners"]

WriteManifestOk ==
    /\ pc = "icons"
    /\ k > Len(miners)
    /\ manifest' = Manifest(miners)
    /\ pc' = "done"
    /\ UNCHANGED <<text, matches, miners, failed, k, files, stdout, iconVars>>

WriteManifestFail ==
    /\ pc = "icons"
    /\ k > Len(miners)
    /\ manifest' \in {manifest, [NoManifest EXCEPT !.state = "partial"]}
    /\ pc' = "failed"
    /\ failed' = "manifest"
    /\ UNCHANGED <<text, matches, miners, k, files, stdout, iconVars>>

Next ==
    \/ ParseOk
    \/ ReadFail
    \/ MkdirOk
    \/ MkdirFail
    \/ SaveOk
    \/ SaveFail
    \/ WriteManifestOk
    \/ WriteManifestFail

Spec == Init /\ [][Next]_vars

-----------------------------------------------------------------------------
(* Direct calls of draw_icon *)

InitIcon ==
    /\ text = <<>>
    /\ matches = <<>>
    /\ miners = <<>>
    /\ pc = "idle"
    /\ failed = "none"
    /\ k = 1
    /\ files = <<>>
    /\ manifest = NoManifest
    /\ stdout = <<>>
    /\ rarity \in Rarities
    /\ seed \in Seeds
    /\ img = <<>>
    /\ icon = <<>>

DrawIconCall ==
    /\ pc = "idle"
    /\ icon = <<>>
    /\ img' = DrawGrid(rarity, seed)
    /\ icon' = draw_icon(rarity, seed)
    /\ UNCHANGED <<mainVars, rarity, seed>>

NextIcon == DrawIconCall

SpecIcon == InitIcon /\ [][NextIcon]_vars

-----------------------------------------------------------------------------
(* Properties of parse_miners, checked under Spec *)

\* parse_miners has just returned to main (text, matches and miners do not
\* change afterwards)
Parsed == pc = "mkdir"

IsPair(i) == text[i].kind = "pair"
PairCount == Cardinality({i \in 1..Len(text) : IsPair(i)})
RarityCount == Cardinality({i \in 1..Len(text) : text[i].kind = "rarity"})

\* The tier of the i-th match, and the records with tier t of a list
MatchTier(i) == int(matches[i].group1)
WithTier(s, t) == LET HasTier(m) == m.tier = t IN SelectSeq(s, HasTier)

\* The pair at position i lies between the pair that starts an earlier match
\* and the rarity that closes that match
Consumed(i) ==
    \E m \in 1..Len(matches) : matches[m].start < i /\ i < matches[m].end

\* The record the pair at i forms with the first rarity after it
NearestRecord(i) ==
    [tier |-> int(text[i].digits), name |-> text[i].str,
     rarity |-> text[Min(RarityAfter(text, i))].str]

RemoveAt(t, i) == SubSeq(t, 1, i - 1) \o SubSeq(t, i + 1, Len(t))

\* C1: parse_miners returns one record per match, in ascending tier order,
\* and the records of equal tier keep the order in which they were matched.
C1_SortedStable ==
    Parsed =>
        /\ Len(miners) = Len(matches)
        /\ \A i \in 1..(Len(miners) - 1) : miners[i].tier <= miners[i + 1].tier
        /\ \A i \in 1..Len(matches) :
               WithTier(miners, MatchTier(i))
                   = WithTier(Appended(matches), MatchTier(i))

\* Three matches whose tiers are 10, 3, 3 in textual order, the two records of
\* tier 3 having different names
C1_Witness ==
    /\ Parsed
    /\ Len(matches) = 3
    /\ MatchTier(1) > MatchTier(2)
    /\ MatchTier(2) = MatchTier(3)
    /\ matches[2].group2 # matches[3].group2
    /\ miners[1].name = matches[2].group2
    /\ miners[2].name = matches[3].group2
    /\ miners[3].tier = MatchTier(1)

\* C2 as stated: every tier/name pair with a rarity later in the text yields
\* a record with the pair's tier and name and the first rarity after the pair.
C2_EveryPairYieldsRecord ==
    Parsed =>
        \A i \in 1..Len(text) :
            (IsPair(i) /\ RarityAfter(text, i) # {}) =>
                \E n \in 1..Len(miners) : miners[n] = NearestRecord(i)

\* C2 amended: every tier/name pair with a rarity later in the text that does
\* not lie inside an earlier match yields a record with the pair's tier and
\* name and the first rarity after the pair.
C2_UnconsumedPairYieldsRecord ==
    Parsed =>
        \A i \in 1..Len(text) :
            (IsPair(i) /\ RarityAfter(text, i) # {} /\ ~Consumed(i)) =>
                \E n \in 1..Len(miners) : miners[n] = NearestRecord(i)

\* A pair followed by other text and two different rarities: the record has
\* the first of them
C2_Witness ==
    /\ Parsed
    /\ \E i \in 1..Len(text) :
           /\ IsPair(i) /\ ~Consumed(i)
           /\ \E j, h \in RarityAfter(text, i) :
                  /\ i + 1 < j /\ j < h
                  /\ RarityAfter(text, i) = {j, h}
                  /\ text[j].str # text[h].str
                  /\ miners = <<[tier |-> int(text[i].digits),
                                 name |-> text[i].str, rarity |-> text[j].str]>>

\* C3: a pair with no rarity after it starts no match and the result is the
\* one the text without that pair gives; a text with no pair that is followed
\* by a rarity gives the empty list.
C3_MalformedExcluded ==
    Parsed =>
        /\ \A i \in 1..Len(text) :
               (IsPair(i) /\ RarityAfter(text, i) = {}) =>
                   /\ \A m \in 1..Len(matches) : matches[m].start # i
                   /\ miners = parse_miners(RemoveAt(text, i))
        /\ (\A i \in 1..Len(text) : IsPair(i) => RarityAfter(text, i) = {})
               => miners = <<>>
        /\ Len(miners) = Len(matches)

\* Two well-formed blocks followed by a pair that has no rarity after it,
\* whose tier and name occur in no record
C3_Witness ==
    /\ Parsed
    /\ Len(miners) = 2
    /\ IsPair(Len(text))
    /\ \A n \in 1..Len(miners) : miners[n].name # text[Len(text)].str

\* C10: matches are non-overlapping and ordered left to right, each goes from
\* a pair to a rarity, so there are no more records than pairs or rarities,
\* and a pair inside a match starts no match.
C10_NonOverlapping ==
    Parsed =>
        /\ \A m \in 1..Len(matches) :
               /\ matches[m].start < matches[m].end
               /\ IsPair(matches[m].start)
               /\ text[matches[m].end].kind = "rarity"
        /\ \A m \in 1..(Len(matches) - 1) : matches[m].end < matches[m + 1].start
        /\ Len(miners) <= RarityCount
        /\ Len(miners) <= PairCount
        /\ \A i \in 1..Len(text) :
               (IsPair(i) /\ Consumed(i)) =>
                   \A m \in 1..Len(matches) : matches[m].start # i

\* A pair consumed by the first match, with a second match after it
C10_Witness ==
    /\ Parsed
    /\ Len(matches) = 2
    /\ \E i \in 1..Len(text) :
           /\ IsPair(i) /\ matches[1].start < i /\ i < matches[1].end
           /\ \A n \in 1..Len(miners) : miners[n].name # text[i].str

-----------------------------------------------------------------------------
(* Properties of main, checked under Spec *)

RecordTiers == {miners[i].tier : i \in 1..Len(miners)}

\* The encoded image stands for GRID*SCALE rows of GRID*SCALE pixels
IsFullSizeImage(enc) ==
    /\ RunTotal(enc) = 128
    /\ \A n \in 1..Len(enc) : RunTotal(enc[n][1]) = 128

\* C4: after a failure of the read, of mkdir or of the save of the k-th icon
\* nothing more happens: the manifest is not written and only icons of the
\* records up to the k-th exist; the manifest is written only after every
\* record's icon was saved.
C4_State ==
    /\ failed \in {"read", "mkdir", "save"} =>
           /\ pc = "failed"
           /\ manifest = NoManifest
           /\ Len(stdout) = k - 1
           /\ DOMAIN files \subseteq
                  {OutputPath(miners[i].tier) : i \in 1..Len(miners) \cap 1..k}
    /\ failed \in {"read", "mkdir"} => DOMAIN files = {}
    /\ manifest # NoManifest =>
           /\ failed \in {"none", "manifest"}
           /\ k = Len(miners) + 1
           /\ Len(stdout) = Len(miners)
           /\ \A t \in RecordTiers :
                  /\ OutputPath(t) \in DOMAIN files
                  /\ files[OutputPath(t)] # Truncated

C4_AbortOnFirstFailure ==
    /\ []C4_State
    /\ [][failed # "none" => UNCHANGED vars]_vars

\* The save of the second of three records fails
C4_Witness ==
    /\ failed = "save"
    /\ k = 2
    /\ Len(miners) = 3
    /\ miners[3].tier # miners[1].tier
    /\ miners[3].tier # miners[2].tier
    /\ OutputPath(miners[3].tier) \notin DOMAIN files
    /\ manifest = NoManifest

\* C5: after a successful run the image files are exactly tier-N.png for the
\* tiers N of the records, each 128x128, the manifest has size 128 and count
\* the number of records, one line was printed per save; without records
\* there is no image file and count is 0.
C5_SuccessfulRun ==
    pc = "done" =>
        /\ DOMAIN files = {OutputPath(t) : t \in RecordTiers}
        /\ Cardinality(DOMAIN files) = Cardinality(RecordTiers)
        /\ \A f \in DOMAIN files : IsFullSizeImage(files[f])
        /\ manifest.state = "written"
        /\ manifest.size = 128
        /\ manifest.count = Len(miners)
        /\ Len(stdout) = Len(miners)
        /\ \A i \in 1..Len(miners) :
               stdout[i] = "wrote " \o OutputPath(miners[i].tier)
        /\ Len(miners) = 0 => (DOMAIN files = {} /\ manifest.count = 0)

\* A successful run over three records of tiers 3, 3 and 10
C5_Witness ==
    /\ pc = "done"
    /\ Len(miners) = 3
    /\ DOMAIN files = {"assets/ui/miners/tier-3.png", "assets/ui/miners/tier-10.png"}
    /\ manifest.count = 3
    /\ Len(stdout) = 3

\* C9: records of one tier N are saved to the same file in sorted order, so
\* after a successful run tier-N.png holds the icon of the record of tier N
\* matched last in the text, and count is the number of records.
C9_LastDuplicateWins ==
    pc = "done" =>
        /\ \A i \in 1..Len(matches) :
               LET N    == MatchTier(i)
                   last == Max({j \in 1..Len(matches) : MatchTier(j) = N})
               IN  /\ OutputPath(N) \in DOMAIN files
                   /\ files[OutputPath(N)] = SavedIcon(matches[last].group3, N)
        /\ manifest.count = Len(matches)
        /\ manifest.count >= Cardinality(DOMAIN files)

\* Two records of tier 3 with different rarities: one file, count 2
C9_Witness ==
    /\ pc = "done"
    /\ Len(matches) = 2
    /\ MatchTier(1) = MatchTier(2)
    /\ matches[1].group3 # matches[2].group3
    /\ Cardinality(DOMAIN files) = 1
    /\ manifest.count = 2
    /\ files[OutputPath(MatchTier(1))] # SavedIcon(matches[1].group3, MatchTier(1))

-----------------------------------------------------------------------------
(* Properties of draw_icon, checked under SpecIcon *)

Drawn == icon # <<>>

FaceRegion == (4..11) \X (8..11)
Cell(p) == <<p[1] \div 8, p[2] \div 8>>

\* C6: a rarity that is no key of RARITY_COLORS gives the image of "Common".
C6_UnknownIsCommon ==
    (Drawn /\ rarity \notin {"Common", "Rare", "Epic", "Legendary", "Mythic", "Exotic"})
        => icon = draw_icon("Common", seed)

C6_Witness ==
    /\ Drawn
    /\ rarity = "Nonexistent"
    /\ seed = 3
    /\ icon[<<24, 16>>] = "#b0b0b0"
    /\ icon[<<40, 32>>] = "#7a7a7a"

\* C7: two seeds of different parity with the same stripe condition give
\* bitmaps that differ inside the face region, where the differing pixels
\* are #f2c9a0 for the even and #e3b58a for the odd seed, and agree outside;
\* the returned image shows each canvas pixel as a block of 8x8 pixels.
C7_ParityChangesFaceOnly ==
    Drawn =>
        /\ icon = [q \in (0..127) \X (0..127) |-> img[Cell(q)]]
        /\ \A b \in Seeds :
               (seed % 2 # b % 2 /\ ((seed % 3 = 0) <=> (b % 3 = 0))) =>
                   \A other \in {DrawGrid(rarity, b)} :
                       LET tone(s) == IF s % 2 = 0 THEN "#f2c9a0" ELSE "#e3b58a"
                       IN  /\ \A p \in GridPixels \ FaceRegion : img[p] = other[p]
                           /\ \E p \in FaceRegion : img[p] # other[p]
                           /\ \A p \in FaceRegion :
                                  img[p] # other[p] =>
                                      (img[p] = tone(seed) /\ other[p] = tone(b))
                           /\ img[<<4, 8>>] = tone(seed)

C7_Witness ==
    /\ Drawn
    /\ rarity = "Epic"
    /\ seed = 2
    /\ img[<<5, 8>>] = "#f2c9a0"
    /\ DrawGrid(rarity, 1)[<<5, 8>>] = "#e3b58a"

\* C8: row 4, columns 5..10 of the canvas hold the accent colour exactly when
\* seed mod 3 = 0 and the base colour otherwise, and the two colours differ
\* for every palette entry.
C8_StripeIffMod3 ==
    Drawn =>
        LET base   == Palette(rarity)[1]
            accent == Palette(rarity)[2]
        IN  /\ (\A x \in 5..10 : img[<<x, 4>>] = accent) <=> (seed % 3 = 0)
            /\ seed % 3 # 0 => \A x \in 5..10 : img[<<x, 4>>] = base
            /\ \A x \in 5..10, dx, dy \in 0..7 :
                   icon[<<8 * x + dx, 32 + dy>>] = img[<<x, 4>>]
            /\ \A r \in DOMAIN RARITY_COLORS :
                   RARITY_COLORS[r][1] # RARITY_COLORS[r][2]

C8_Witness ==
    /\ Drawn
    /\ seed = 6
    /\ rarity = "Legendary"
    /\ \A x \in 5..10 : img[<<x, 4>>] = "#f1c40f"
    /\ img[<<4, 4>>] = "#f7d36a"

====
